---- MODULE Spec2Model ----
(***************************************************************************)
(* A model of unifi-proxy: a TLS SNI passthrough proxy.                    *)
(*                                                                         *)
(*   src/src/server.js            connection handler, rate limiter         *)
(*   src/src/utils/sni-parser.js  parseSNI, hasEnoughDataForSNI            *)
(*   src/src/utils/ip-filter.js   IPFilter                                 *)
(*   src/unnamed/part_000         config.js: UNIFI_DOMAINS, config         *)
(*   src/unnamed/part_001         health-check.js: StatsTracker            *)
(*                                                                         *)
(* Strings are sequences of character codes and buffers are sequences of   *)
(* bytes, so that parsing, splitting and table lookup are computed the way *)
(* the code computes them.                                                 *)
(***************************************************************************)
EXTENDS Integers, Sequences, FiniteSets, TLC

(***************************************************************************)
(* JavaScript primitives used by the sources.                              *)
(***************************************************************************)

\* A JavaScript value that may be null / undefined.
Null == [isNull |-> TRUE, v |-> <<>>]
Some(x) == [isNull |-> FALSE, v |-> x]

\* A JavaScript number that may be NaN.
NaN == [nan |-> TRUE, n |-> 0]
Num(k) == [nan |-> FALSE, n |-> k]

\* Integers of the model checker are 32-bit signed, so a JavaScript integer
\* that takes part in 32-bit arithmetic is kept as the pair hi * 65536 + lo
\* with 0 <= lo < 65536: an int32 has -32768 <= hi < 32768, a uint32 has
\* 0 <= hi < 65536. Two such numbers are equal iff their pairs are equal.
Half == 2 ^ 16

Word(k) == [hi |-> k \div Half, lo |-> k % Half]

ToUint32(w) == [hi |-> w.hi % Half, lo |-> w.lo]
ToInt32(w) ==
  LET h == w.hi % Half
  IN [hi |-> IF h >= Half \div 2 THEN h - Half ELSE h, lo |-> w.lo]

RECURSIVE BitAndNat(_, _)
BitAndNat(a, b) ==
  IF a = 0 \/ b = 0 THEN 0
  ELSE (a % 2) * (b % 2) + 2 * BitAndNat(a \div 2, b \div 2)

RECURSIVE BitOrNat(_, _)
BitOrNat(a, b) ==
  IF a = 0 THEN b
  ELSE IF b = 0 THEN a
  ELSE (IF a % 2 = 1 \/ b % 2 = 1 THEN 1 ELSE 0) + 2 * BitOrNat(a \div 2, b \div 2)

RECURSIVE ShlU32(_, _)
ShlU32(u, k) ==
  IF k = 0 THEN u
  ELSE ShlU32([hi |-> (u.hi * 2 + u.lo \div (Half \div 2)) % Half,
               lo |-> (u.lo * 2) % Half], k - 1)

\* The operators & | << >>> of JavaScript: operands taken as 32-bit words,
\* the result an int32 (for >>> a uint32).
JsAnd(a, b) ==
  ToInt32([hi |-> BitAndNat(ToUint32(a).hi, ToUint32(b).hi),
           lo |-> BitAndNat(a.lo, b.lo)])
JsOr(a, b) ==
  ToInt32([hi |-> BitOrNat(ToUint32(a).hi, ToUint32(b).hi),
           lo |-> BitOrNat(a.lo, b.lo)])
JsShl(a, k) == ToInt32(ShlU32(ToUint32(a), k % 32))
JsUshr0(a) == ToUint32(a)

\* NaN becomes 0 as an operand of a bitwise operator.
IntOf(x) == IF x.nan THEN Word(0) ELSE Word(x.n)

IsDigit(c) == c >= 48 /\ c <= 57
IsSpace(c) == c = 32

RECURSIVE DecimalValue(_)
DecimalValue(s) ==
  IF s = <<>> THEN 0
  ELSE 10 * DecimalValue(SubSeq(s, 1, Len(s) - 1)) + (s[Len(s)] - 48)

RECURSIVE Trim(_)
Trim(s) ==
  IF s = <<>> THEN s
  ELSE IF IsSpace(s[1]) THEN Trim(Tail(s))
  ELSE IF IsSpace(s[Len(s)]) THEN Trim(SubSeq(s, 1, Len(s) - 1))
  ELSE s

\* Number(s) for strings over digits, blanks and the other characters of the
\* modelled addresses (no sign, no exponent, no radix prefix): the empty
\* string is 0, a digit string is its decimal value, anything else is NaN.
Number(s) ==
  LET t == Trim(s)
  IN IF t = <<>> THEN Num(0)
     ELSE IF \A i \in 1..Len(t) : IsDigit(t[i]) THEN Num(DecimalValue(t))
     ELSE NaN

\* The longest prefix of digits.
RECURSIVE DigitPrefix(_)
DigitPrefix(s) ==
  IF s = <<>> \/ ~IsDigit(s[1]) THEN <<>>
  ELSE <<s[1]>> \o DigitPrefix(Tail(s))

\* parseInt(s, 10) for the same strings: the leading digits, NaN when there
\* are none.
parseInt(s) ==
  LET d == DigitPrefix(Trim(s))
  IN IF d = <<>> THEN NaN ELSE Num(DecimalValue(d))

\* s.split(sep) for a one-character separator.
RECURSIVE Split(_, _)
Split(s, sep) ==
  IF \E i \in 1..Len(s) : s[i] = sep
  THEN LET i == CHOOSE k \in 1..Len(s) : s[k] = sep /\ \A j \in 1..(k - 1) : s[j] # sep
       IN <<SubSeq(s, 1, i - 1)>> \o Split(SubSeq(s, i + 1, Len(s)), sep)
  ELSE <<s>>

RECURSIVE FilterNonEmpty(_)
FilterNonEmpty(ss) ==
  IF ss = <<>> THEN <<>>
  ELSE IF ss[1] = <<>> THEN FilterNonEmpty(Tail(ss))
  ELSE <<ss[1]>> \o FilterNonEmpty(Tail(ss))

\* Character codes of '.', '/' and ','.
DOT == 46
SLASH == 47
COMMA == 44

(***************************************************************************)
(* ip-filter.js                                                            *)
(***************************************************************************)

\* A function that may throw: [ok |-> FALSE] is the throw.
Throw == [ok |-> FALSE, v |-> <<>>]
Return(x) == [ok |-> TRUE, v |-> x]

ipToInt(ip) ==
  LET parts == [i \in 1..Len(Split(ip, DOT)) |-> Number(Split(ip, DOT)[i])]
  IN IF Len(parts) # 4
        \/ \E i \in 1..Len(parts) :
             ~parts[i].nan /\ (parts[i].n < 0 \/ parts[i].n > 255)
     THEN Throw
     ELSE Return(JsOr(JsOr(JsOr(JsShl(IntOf(parts[1]), 24),
                                JsShl(IntOf(parts[2]), 16)),
                           JsShl(IntOf(parts[3]), 8)),
                      IntOf(parts[4])))

parseCIDR(cidr) ==
  LET sp == Split(cidr, SLASH)
      ip == sp[1]
      prefix == parseInt(sp[2])
  IN IF prefix.nan \/ prefix.n < 0 \/ prefix.n > 32
     THEN Throw
     ELSE LET network == ipToInt(ip)
              mask == IF prefix.n = 0 THEN Word(0)
                      ELSE JsUshr0(JsShl([hi |-> Half - 1, lo |-> Half - 1],
                                         32 - prefix.n))
          IN IF ~network.ok THEN Throw
             ELSE Return([network |-> JsAnd(network.v, mask), mask |-> mask])

\* A variant of matchesCIDR that compares the masked address as an unsigned
\* number with the (signed) network.
matchesCIDR_unsigned(ipInt, cidr) ==
  JsUshr0(JsAnd(ipInt, cidr.mask)) = cidr.network

matchesCIDR(ipInt, cidr) == JsAnd(ipInt, cidr.mask) = cidr.network

\* One entry of the list: the rule pushed, or nothing when parsing throws.
RuleOf(entry) ==
  IF \E i \in 1..Len(entry) : entry[i] = SLASH
  THEN LET c == parseCIDR(entry)
       IN IF c.ok
          THEN <<[type |-> "cidr", ip |-> Word(0), network |-> c.v.network,
                  mask |-> c.v.mask, original |-> entry]>>
          ELSE <<>>
  ELSE LET a == ipToInt(entry)
       IN IF a.ok
          THEN <<[type |-> "ip", ip |-> a.v, network |-> Word(0), mask |-> Word(0),
                  original |-> entry]>>
          ELSE <<>>

RECURSIVE RulesOf(_)
RulesOf(ipList) ==
  IF ipList = <<>> THEN <<>>
  ELSE RuleOf(ipList[1]) \o RulesOf(Tail(ipList))

\* IPFilter.setAllowedIPs for a comma-separated string: the rules it leaves.
setAllowedIPs(allowedIPs) ==
  LET sp == Split(allowedIPs, COMMA)
      ipList == FilterNonEmpty([i \in 1..Len(sp) |-> Trim(sp[i])])
  IN RulesOf(ipList)

\* IPFilter.isAllowed with this.rules = rs.
isAllowed(rs, ip) ==
  IF Len(rs) = 0 THEN TRUE
  ELSE IF \E i \in 1..Len(rs) :
            rs[i].type = "cidr" /\ rs[i].network = Word(0) /\ rs[i].mask = Word(0)
  THEN TRUE
  ELSE LET ipInt == ipToInt(ip)
       IN IF ~ipInt.ok THEN FALSE
          ELSE \E i \in 1..Len(rs) :
                 \/ rs[i].type = "ip" /\ ipInt.v = rs[i].ip
                 \/ rs[i].type = "cidr" /\ matchesCIDR(ipInt.v, rs[i])

(***************************************************************************)
(* sni-parser.js: a buffer is a sequence of bytes, offsets count from 0.   *)
(***************************************************************************)

\* buffer[off]
At(buffer, off) == buffer[off + 1]

readUInt16BE(buffer, off) == At(buffer, off) * 256 + At(buffer, off + 1)

\* buffer.toString('utf8', from, to) for buffers whose bytes at or above 0x80
\* do not form a valid multi-byte sequence: each such byte decodes to U+FFFD.
toStringUtf8(buffer, from, to) ==
  [i \in 1..((IF to > Len(buffer) THEN Len(buffer) ELSE to) - from) |->
     IF At(buffer, from + i - 1) < 128 THEN At(buffer, from + i - 1) ELSE 65533]

\* The SNI extension body at offset (just after the extension header).
parseServerName(buffer, offset) ==
  IF offset + 4 >= Len(buffer) THEN Null
  ELSE IF (offset + 2) + 2 >= Len(buffer) THEN Null
  ELSE LET serverNameType == At(buffer, offset + 2)
           serverNameLength == readUInt16BE(buffer, offset + 3)
           start == offset + 5
       IN IF serverNameType = 0 /\ start + serverNameLength <= Len(buffer)
          THEN Some(toStringUtf8(buffer, start, start + serverNameLength))
          ELSE Null

\* The while loop over the extensions, from offset.
RECURSIVE parseExtensions(_, _, _)
parseExtensions(buffer, offset, extensionsEnd) ==
  IF offset + 3 < extensionsEnd /\ offset + 3 < Len(buffer)
  THEN LET extensionType == readUInt16BE(buffer, offset)
           extensionLength == readUInt16BE(buffer, offset + 2)
       IN IF extensionType = 0
          THEN parseServerName(buffer, offset + 4)
          ELSE parseExtensions(buffer, offset + 4 + extensionLength, extensionsEnd)
  ELSE Null

parseSNI(buffer) ==
  IF Len(buffer) < 5 \/ At(buffer, 0) # 22 THEN Null
  ELSE IF Len(buffer) < 6 \/ At(buffer, 5) # 1 THEN Null
  ELSE IF 43 >= Len(buffer) THEN Null
  ELSE LET o1 == 43 + 1 + At(buffer, 43)
       IN IF o1 + 1 >= Len(buffer) THEN Null
          ELSE LET o2 == o1 + 2 + readUInt16BE(buffer, o1)
               IN IF o2 >= Len(buffer) THEN Null
                  ELSE LET o3 == o2 + 1 + At(buffer, o2)
                       IN IF o3 + 1 >= Len(buffer) THEN Null
                          ELSE parseExtensions(buffer, o3 + 2,
                                 o3 + 2 + readUInt16BE(buffer, o3))

hasEnoughDataForSNI(buffer) ==
  IF Len(buffer) < 5 THEN FALSE
  ELSE IF At(buffer, 0) # 22 THEN FALSE
  ELSE Len(buffer) >= readUInt16BE(buffer, 3) + 5

\* A JavaScript string or null used as a condition: null and "" are falsy.
Truthy(x) == ~x.isNull /\ x.v # <<>>

(***************************************************************************)
(* config.js                                                               *)
(***************************************************************************)

\* "fw-download.ubnt.com"
fw_download_ubnt_com ==
  <<102, 119, 45, 100, 111, 119, 110, 108, 111, 97, 100, 46, 117, 98, 110,
    116, 46, 99, 111, 109>>
\* "fw-update.ubnt.com"
fw_update_ubnt_com ==
  <<102, 119, 45, 117, 112, 100, 97, 116, 101, 46, 117, 98, 110, 116, 46, 99,
    111, 109>>
\* "fw-update.ui.com"
fw_update_ui_com ==
  <<102, 119, 45, 117, 112, 100, 97, 116, 101, 46, 117, 105, 46, 99, 111, 109>>
\* "apt.artifacts.ui.com"
apt_artifacts_ui_com ==
  <<97, 112, 116, 46, 97, 114, 116, 105, 102, 97, 99, 116, 115, 46, 117, 105,
    46, 99, 111, 109>>
\* "apt-beta.artifacts.ui.com"
apt_beta_artifacts_ui_com ==
  <<97, 112, 116, 45, 98, 101, 116, 97, 46, 97, 114, 116, 105, 102, 97, 99,
    116, 115, 46, 117, 105, 46, 99, 111, 109>>
\* "apt-release-candidate.artifacts.ui.com"
apt_release_candidate_artifacts_ui_com ==
  <<97, 112, 116, 45, 114, 101, 108, 101, 97, 115, 101, 45, 99, 97, 110, 100,
    105, 100, 97, 116, 101, 46, 97, 114, 116, 105, 102, 97, 99, 116, 115, 46,
    117, 105, 46, 99, 111, 109>>

ConfiguredHostnames ==
  {fw_download_ubnt_com, fw_update_ubnt_com, fw_update_ui_com,
   apt_artifacts_ui_com, apt_beta_artifacts_ui_com,
   apt_release_candidate_artifacts_ui_com}

\* The own properties of the object literal.
UNIFI_DOMAINS ==
  [h \in ConfiguredHostnames |-> [kind |-> "target", host |-> h, port |-> 443]]

\* UNIFI_DOMAINS is an object literal, so the property names it inherits from
\* Object.prototype are answered as well: each is a function, and __proto__
\* is the prototype object itself.
ObjectPrototypeKeys ==
  {<<99, 111, 110, 115, 116, 114, 117, 99, 116, 111, 114>>,                \* constructor
   <<116, 111, 83, 116, 114, 105, 110, 103>>,                              \* toString
   <<116, 111, 76, 111, 99, 97, 108, 101, 83, 116, 114, 105, 110, 103>>,   \* toLocaleString
   <<118, 97, 108, 117, 101, 79, 102>>,                                    \* valueOf
   <<104, 97, 115, 79, 119, 110, 80, 114, 111, 112, 101, 114, 116, 121>>,  \* hasOwnProperty
   <<105, 115, 80, 114, 111, 116, 111, 116, 121, 112, 101, 79, 102>>,      \* isPrototypeOf
   <<112, 114, 111, 112, 101, 114, 116, 121, 73, 115, 69, 110, 117, 109,
     101, 114, 97, 98, 108, 101>>,                                         \* propertyIsEnumerable
   <<95, 95, 112, 114, 111, 116, 111, 95, 95>>,                            \* __proto__
   <<95, 95, 100, 101, 102, 105, 110, 101, 71, 101, 116, 116, 101, 114, 95, 95>>,  \* __defineGetter__
   <<95, 95, 100, 101, 102, 105, 110, 101, 83, 101, 116, 116, 101, 114, 95, 95>>,  \* __defineSetter__
   <<95, 95, 108, 111, 111, 107, 117, 112, 71, 101, 116, 116, 101, 114, 95, 95>>,  \* __lookupGetter__
   <<95, 95, 108, 111, 111, 107, 117, 112, 83, 101, 116, 116, 101, 114, 95, 95>>}  \* __lookupSetter__

\* UNIFI_DOMAINS[sni]: an own property, else an inherited one, else undefined.
PropertyOf(sni) ==
  IF sni \in DOMAIN UNIFI_DOMAINS THEN Some(UNIFI_DOMAINS[sni])
  ELSE IF sni \in ObjectPrototypeKeys
  THEN Some([kind |-> "inherited", host |-> <<>>, port |-> 0])
  ELSE Null

\* A variant of getUpstreamForSNI that falls back to a default target for a
\* name it does not know.
getUpstreamForSNI_fallback(sni) ==
  IF sni = <<>> THEN Null
  ELSE IF PropertyOf(sni).isNull THEN Some(UNIFI_DOMAINS[fw_update_ui_com])
  ELSE PropertyOf(sni)

\* getUpstreamForSNI(sni) for a string sni: null, or the value found.
getUpstreamForSNI(sni) ==
  IF sni = <<>> THEN Null ELSE PropertyOf(sni)

\* config.rateLimitPerIP (RATE_LIMIT_PER_IP): the default is 100; the model
\* runs with a small limit so that the limit is reached.
rateLimitPerIP == 1

\* config.allowedIPs (ALLOWED_IPS), here "10.0.0.0/8".
allowedIPs == <<49, 48, 46, 48, 46, 48, 46, 48, 47, 56>>

(***************************************************************************)
(* health-check.js: StatsTracker.  A stats value is the record of the four *)
(* counters and the two maps.                                              *)
(***************************************************************************)

NewStats ==
  [total |-> 0, active |-> 0, successful |-> 0, failed |-> 0,
   domains |-> <<>>, ipConnections |-> <<>>]

Max(a, b) == IF a >= b THEN a ELSE b

\* map[key] = (map[key] || 0) + 1
Bump(map, key) ==
  IF key \in DOMAIN map THEN [map EXCEPT ![key] = @ + 1]
  ELSE [k \in DOMAIN map \cup {key} |-> IF k = key THEN 1 ELSE map[k]]

recordConnection(s, ip, sni) ==
  [s EXCEPT !.total = @ + 1,
            !.active = @ + 1,
            !.domains = IF sni # <<>> THEN Bump(@, sni) ELSE @,
            !.ipConnections = IF ip # <<>> THEN Bump(@, ip) ELSE @]

recordSuccess(s) ==
  [s EXCEPT !.successful = @ + 1, !.active = Max(0, @ - 1)]

\* A variant of recordFailure that also counts the connection in total.
recordFailure_counted(s) ==
  [s EXCEPT !.failed = @ + 1, !.total = @ + 1, !.active = Max(0, @ - 1)]

recordFailure(s) ==
  [s EXCEPT !.failed = @ + 1, !.active = Max(0, @ - 1)]

(***************************************************************************)
(* server.js: the rate limiter.                                            *)
(***************************************************************************)

\* The length of a rate-limit window and the period of the sweep, in ms.
RateWindow == 60000
SweepInterval == 60000

\* A variant of checkRateLimit that compares the count with > instead of >=.
checkRateLimit_offByOne(m, ip, t) ==
  IF ip \notin DOMAIN m \/ t > m[ip].resetTime
  THEN [admitted |-> TRUE,
        map |-> [k \in DOMAIN m \cup {ip} |->
                   IF k = ip THEN [count |-> 1, resetTime |-> t + RateWindow]
                   ELSE m[k]]]
  ELSE IF m[ip].count > rateLimitPerIP
  THEN [admitted |-> FALSE, map |-> m]
  ELSE [admitted |-> TRUE, map |-> [m EXCEPT ![ip].count = @ + 1]]

\* A variant of checkRateLimit that restarts the window of a source it turns
\* away.
checkRateLimit_penalising(m, ip, t) ==
  IF ip \notin DOMAIN m \/ t > m[ip].resetTime
  THEN [admitted |-> TRUE,
        map |-> [k \in DOMAIN m \cup {ip} |->
                   IF k = ip THEN [count |-> 1, resetTime |-> t + RateWindow]
                   ELSE m[k]]]
  ELSE IF m[ip].count >= rateLimitPerIP
  THEN [admitted |-> FALSE,
        map |-> [m EXCEPT ![ip].resetTime = t + RateWindow]]
  ELSE [admitted |-> TRUE, map |-> [m EXCEPT ![ip].count = @ + 1]]

\* checkRateLimit(ip) at time t on the table m: the answer and the table left.
checkRateLimit(m, ip, t) ==
  IF ip \notin DOMAIN m \/ t > m[ip].resetTime
  THEN [admitted |-> TRUE,
        map |-> [k \in DOMAIN m \cup {ip} |->
                   IF k = ip THEN [count |-> 1, resetTime |-> t + RateWindow]
                   ELSE m[k]]]
  ELSE IF m[ip].count >= rateLimitPerIP
  THEN [admitted |-> FALSE, map |-> m]
  ELSE [admitted |-> TRUE, map |-> [m EXCEPT ![ip].count = @ + 1]]

\* A variant of the sweep's test that also deletes a window ending now.
SweepDeletes_atEnd(m, ip, t) == t >= m[ip].resetTime

\* The entry of ip is deleted by the sweep at time t.
SweepDeletes(m, ip, t) == t > m[ip].resetTime

\* The body of the setInterval callback.
sweepRateLimitMap(m, t) ==
  [k \in {i \in DOMAIN m : ~SweepDeletes(m, i, t)} |-> m[k]]

(***************************************************************************)
(* Inputs: peers, and the bytes a client sends.                            *)
(***************************************************************************)

\* "10.0.0.1" (inside 10.0.0.0/8) and "203.0.113.5" (outside).
Addr_10_0_0_1 == <<49, 48, 46, 48, 46, 48, 46, 49>>
Addr_203_0_113_5 == <<50, 48, 51, 46, 48, 46, 49, 49, 51, 46, 53>>

PeerAddresses == {Addr_10_0_0_1, Addr_203_0_113_5}

\* "example.com", "FW-UPDATE.UI.COM", "constructor"
example_com == <<101, 120, 97, 109, 112, 108, 101, 46, 99, 111, 109>>
FW_UPDATE_UI_COM ==
  <<70, 87, 45, 85, 80, 68, 65, 84, 69, 46, 85, 73, 46, 67, 79, 77>>
constructor_name == <<99, 111, 110, 115, 116, 114, 117, 99, 116, 111, 114>>

U16(k) == <<k \div 256, k % 256>>
Zeros(k) == [i \in 1..k |-> 0]

\* A well-formed TLS record holding a ClientHello with the given extensions
\* block: no session id, one cipher suite, the null compression method.
ClientHelloWith(exts) ==
  LET body == <<3, 3>> \o Zeros(32) \o <<0>> \o U16(2) \o <<19, 1>>
              \o <<1, 0>> \o U16(Len(exts)) \o exts
      hs == <<1, 0>> \o U16(Len(body)) \o body
  IN <<22, 3, 1>> \o U16(Len(hs)) \o hs

\* The server_name extension carrying one host_name.
SniExtension(name) ==
  U16(0) \o U16(Len(name) + 5) \o U16(Len(name) + 3) \o <<0>>
  \o U16(Len(name)) \o name

ClientHello(name) == ClientHelloWith(SniExtension(name))

\* A ClientHello whose only extension is ec_point_formats.
ClientHelloNoSni == ClientHelloWith(U16(11) \o U16(2) \o <<1, 0>>)

\* "GET / HT"
HttpRequest == <<71, 69, 84, 32, 47, 32, 72, 84>>

\* A TLS record sent after the ClientHello, and one sent by the upstream.
ClientAppData == <<20, 3, 3, 0, 1, 1>>
UpstreamAppData == <<23, 3, 3, 0, 1, 7>>

HelloOk == ClientHello(fw_update_ui_com)

\* The number of bytes of the first segment when a ClientHello arrives split.
SplitAt == 1

\* What a client may send as its first chunk, and as a later chunk.
FirstChunks ==
  {HelloOk, SubSeq(HelloOk, 1, SplitAt), ClientHello(example_com),
   ClientHello(FW_UPDATE_UI_COM), ClientHello(constructor_name),
   ClientHelloNoSni, HttpRequest}
LaterChunks ==
  {SubSeq(HelloOk, SplitAt + 1, Len(HelloOk)), ClientAppData}

\* The number of connections, of chunks a client sends on one connection and
\* of chunks an upstream sends on one connection.
MaxConns == 2
MaxClientChunks == 2
MaxUpstreamChunks == 1

Conns == 1..MaxConns

(***************************************************************************)
(* State.                                                                  *)
(*   proc          "running"; "crashed" after an uncaught exception;      *)
(*                 "exited" after process.exit(0), "failed" after         *)
(*                 process.exit(1), "killed" by a signal with no handler  *)
(*   srv           the two servers and the closure of                      *)
(*                 setupGracefulShutdown                                   *)
(*   now           Date.now()                                              *)
(*   rules         ipFilter.rules                                          *)
(*   rateLimitMap  the rate-limit table                                    *)
(*   nextSweep     when the setInterval callback is next due               *)
(*   stats         the StatsTracker                                        *)
(*   conn          per connection: the closure of handleConnection and the *)
(*                 two sockets                                             *)
(*   hist          per connection: what has happened to it (history only;  *)
(*                 no action reads it)                                     *)
(***************************************************************************)
VARIABLES proc, srv, now, rules, rateLimitMap, nextSweep, stats, conn, hist

vars == <<proc, srv, now, rules, rateLimitMap, nextSweep, stats, conn, hist>>

\* A connection that has not been accepted yet.
FreeConn ==
  [st |-> "free",                  \* "free" or "accepted"
   clientIP |-> <<>>,
   client |-> "none",              \* clientSocket: none, open, destroyed
   listeners |-> FALSE,            \* the handlers of lines 239-260 are attached
   onData |-> FALSE,               \* onClientData is a 'data' listener
   clientPiped |-> FALSE,          \* clientSocket.pipe(upstreamSocket)
   clientTimeout |-> FALSE,        \* clientSocket.setTimeout(proxyTimeout)
   clientCloseEmitted |-> FALSE,
   upstream |-> "null",            \* upstreamSocket: null, connecting,
                                   \* connected, destroyed
   upstreamPiped |-> FALSE,        \* upstreamSocket.pipe(clientSocket)
   upstreamCloseEmitted |-> FALSE,
   prereadTimer |-> "none",        \* none, armed, fired, cleared
   dataBuffer |-> Some(<<>>),
   isUpstreamConnected |-> FALSE,
   sniHostname |-> Null]

NoHist ==
  [ipChecked |-> FALSE,            \* isAllowed was called and returned true
   rateAdmitted |-> FALSE,         \* checkRateLimit was called and returned true
   rejected |-> "none",            \* the rejection logged
   helloComplete |-> FALSE,        \* hasEnoughDataForSNI returned true
   lookup |-> Null,                \* what getUpstreamForSNI returned
   nConnection |-> 0,              \* calls of recordConnection
   nSuccess |-> 0,                 \* calls of recordSuccess
   nFailure |-> 0,                 \* calls of recordFailure
   nActiveDec |-> 0,               \* calls that lowered stats.active
   acceptedAt |-> 0,               \* Date.now() in handleConnection
   openedWindow |-> FALSE,         \* its check created or reset the entry
   nDial |-> 0,                    \* sockets tls.connect returned
   dialedHost |-> <<>>,
   received |-> <<>>,              \* every byte read from the client
   nChunks |-> 0,
   nUpstreamChunks |-> 0,
   toUpstream |-> <<>>,            \* every byte written to the upstream
   toClient |-> <<>>,              \* every byte written to the client
   handshakeDone |-> FALSE]        \* 'secureConnect' was emitted

\* main() is waiting for the health check server to listen.
StartingSrv ==
  [phase |-> "starting",           \* "starting", or "serving" once main has
                                   \* called setupGracefulShutdown
   healthListening |-> FALSE,
   proxyListening |-> FALSE,
   isShuttingDown |-> FALSE,
   graceTimers |-> 0,              \* pending callbacks of setTimeout(.., 5000)
   graceDeadline |-> 0,            \* when the first of them is due
   proxyCloses |-> 0,              \* calls of proxyServer.close
   nSignals |-> 0,                 \* signals delivered (history only)
   nHealthErrors |-> 0]            \* 'error' events of the health check
                                   \* server (history only)

\* main() has returned: both servers listen, the signal handlers are set.
ServingSrv ==
  [StartingSrv EXCEPT !.phase = "serving", !.healthListening = TRUE,
                      !.proxyListening = TRUE]

\* The state once main() has returned.  The actions of Next are those of the
\* connections and of the rate limiter; signals and the start of the process
\* are the subject of SpecLifecycle below.
Init ==
  /\ proc = "running"
  /\ srv = ServingSrv
  /\ now = 0
  /\ rules = setAllowedIPs(allowedIPs)
  /\ rateLimitMap = <<>>
  /\ nextSweep = SweepInterval
  /\ stats = NewStats
  /\ conn = [c \in Conns |-> FreeConn]
  /\ hist = [c \in Conns |-> NoHist]

(***************************************************************************)
(* server.js: handleConnection and the handlers it installs.  A handler is *)
(* an operator from the connection k, its history h and the stats s to the *)
(* values it leaves: [k, h, s, proc].                                      *)
(***************************************************************************)

Out(k, h, s) == [k |-> k, h |-> h, s |-> s, proc |-> "running"]

IsLive(sock) == sock \in {"open", "connecting", "connected"}

\* clientSocket.destroy() / upstreamSocket.destroy()
destroyClient(k) == [k EXCEPT !.client = "destroyed"]
destroyUpstream(k) == [k EXCEPT !.upstream = "destroyed"]

clearPrereadTimer(k) ==
  [k EXCEPT !.prereadTimer = IF @ = "armed" THEN "cleared" ELSE @]

\* A variant of cleanup that leaves the upstream socket alone.
cleanup_clientOnly(k) ==
  LET k1 == clearPrereadTimer(k)
  IN IF k1.client = "open"
     THEN destroyClient([k1 EXCEPT !.clientPiped = FALSE])
     ELSE k1

cleanup(k) ==
  LET k1 == clearPrereadTimer(k)
      k2 == IF k1.client = "open"
            THEN destroyClient([k1 EXCEPT !.clientPiped = FALSE])
            ELSE k1
  IN IF k2.upstream \in {"connecting", "connected"}
     THEN destroyUpstream([k2 EXCEPT !.upstreamPiped = FALSE])
     ELSE k2

\* A variant of the allow-list check that never turns a peer away.
IpRejected_never(ip) == FALSE

\* The two admission checks of handleConnection.
IpRejected(ip) == ~isAllowed(rules, ip)
RateRejected(r) == ~r.admitted

\* A variant of connectToUpstream that writes the buffered ClientHello to the
\* socket right after tls.connect instead of in the 'secureConnect' handler.
connectToUpstream_eager(k, h, s, upstream) ==
  IF upstream.kind = "target"
  THEN Out([k EXCEPT !.upstream = "connecting"],
           [h EXCEPT !.nDial = @ + 1, !.dialedHost = upstream.host,
                     !.toUpstream = @ \o k.dataBuffer.v], s)
  ELSE [k |-> k, h |-> h, s |-> s, proc |-> "crashed"]

\* connectToUpstream(upstream): tls.connect and the listeners on the socket.
\* For a value inherited from Object.prototype upstream.port is undefined and
\* tls.connect throws ERR_MISSING_ARGS inside the 'data' handler: nothing
\* catches it and the process ends.
connectToUpstream(k, h, s, upstream) ==
  IF upstream.kind = "target"
  THEN Out([k EXCEPT !.upstream = "connecting"],
           [h EXCEPT !.nDial = @ + 1, !.dialedHost = upstream.host], s)
  ELSE [k |-> k, h |-> h, s |-> s, proc |-> "crashed"]

\* The rejection paths of onClientData: recordFailure, clearTimeout, destroy.
rejectHello(k, h, s, why) ==
  Out(destroyClient(clearPrereadTimer(k)),
      [h EXCEPT !.rejected = why, !.nFailure = @ + 1],
      recordFailure(s))

\* A variant of onClientData that stays a 'data' listener after the dial.
onClientData_listening(k, h, s, data) ==
  LET buf == k.dataBuffer.v \o data
      k1 == [k EXCEPT !.dataBuffer = Some(buf)]
  IN IF ~hasEnoughDataForSNI(buf) THEN Out(k1, h, s)
     ELSE LET sni == parseSNI(buf)
              k2 == [k1 EXCEPT !.sniHostname = sni]
              h2 == [h EXCEPT !.helloComplete = TRUE]
          IN IF ~Truthy(sni) THEN rejectHello(k2, h2, s, "NoSni")
             ELSE LET upstream == getUpstreamForSNI(sni.v)
                      h3 == [h2 EXCEPT !.lookup = upstream]
                  IN IF upstream.isNull
                     THEN rejectHello(k2, h3, s, "SniNotAllowed")
                     ELSE connectToUpstream(
                            k2,
                            [h3 EXCEPT !.nConnection = @ + 1],
                            recordConnection(s, k.clientIP, sni.v),
                            upstream.v)

onClientData(k, h, s, data) ==
  LET buf == k.dataBuffer.v \o data
      k1 == [k EXCEPT !.dataBuffer = Some(buf)]
  IN IF ~hasEnoughDataForSNI(buf) THEN Out(k1, h, s)
     ELSE LET sni == parseSNI(buf)
              k2 == [k1 EXCEPT !.sniHostname = sni]
              h2 == [h EXCEPT !.helloComplete = TRUE]
          IN IF ~Truthy(sni) THEN rejectHello(k2, h2, s, "NoSni")
             ELSE LET upstream == getUpstreamForSNI(sni.v)
                      h3 == [h2 EXCEPT !.lookup = upstream]
                  IN IF upstream.isNull
                     THEN rejectHello(k2, h3, s, "SniNotAllowed")
                     ELSE connectToUpstream(
                            [k2 EXCEPT !.onData = FALSE],
                            [h3 EXCEPT !.nConnection = @ + 1],
                            recordConnection(s, k.clientIP, sni.v),
                            upstream.v)

\* A chunk read from the client socket: onClientData while it listens, the
\* pipe once it is set up; a flowing socket with no 'data' listener drops it.
clientData(k, h, s, data) ==
  LET h1 == [h EXCEPT !.received = @ \o data, !.nChunks = @ + 1]
  IN IF k.onData THEN onClientData(k, h1, s, data)
     ELSE IF k.clientPiped /\ k.upstream = "connected"
     THEN Out(k, [h1 EXCEPT !.toUpstream = @ \o data], s)
     ELSE Out(k, h1, s)

\* The 'secureConnect' handler.
secureConnect(k, h, s) ==
  Out([clearPrereadTimer(k) EXCEPT
         !.upstream = "connected",
         !.isUpstreamConnected = TRUE,
         !.clientTimeout = (k.client = "open"),
         !.dataBuffer = Null,
         !.clientPiped = TRUE,
         !.upstreamPiped = TRUE],
      [h EXCEPT !.handshakeDone = TRUE,
                !.toUpstream = @ \o k.dataBuffer.v,
                !.nSuccess = @ + 1],
      recordSuccess(s))

\* The 'timeout' and 'error' handlers of the upstream socket.
upstreamFailure(k, h, s) ==
  Out(cleanup(k), [h EXCEPT !.nFailure = @ + 1], recordFailure(s))

\* A variant of the prereadTimer callback that closes the client without
\* recording a failure.
prereadExpired_silent(k, h, s) ==
  IF ~k.isUpstreamConnected
  THEN Out(destroyClient([k EXCEPT !.prereadTimer = "fired"]),
           [h EXCEPT !.rejected = IF @ = "none" THEN "PrereadTimeout" ELSE @], s)
  ELSE Out([k EXCEPT !.prereadTimer = "fired"], h, s)

\* The prereadTimer callback.
prereadExpired(k, h, s) ==
  IF ~k.isUpstreamConnected
  THEN Out(destroyClient([k EXCEPT !.prereadTimer = "fired"]),
           [h EXCEPT !.rejected = IF @ = "none" THEN "PrereadTimeout" ELSE @,
                     !.nFailure = @ + 1],
           recordFailure(s))
  ELSE Out([k EXCEPT !.prereadTimer = "fired"], h, s)

\* The handler leaves connection c as o says.
Leaves(c, o) ==
  /\ conn' = [conn EXCEPT ![c] = o.k]
  /\ hist' = [hist EXCEPT ![c] =
                [o.h EXCEPT !.nActiveDec =
                              @ + IF o.s.active < stats.active THEN 1 ELSE 0]]
  /\ stats' = o.s
  /\ proc' = o.proc

\* net.createServer(handleConnection): a client at ip connects.
HandleConnection(c, ip) ==
  /\ proc = "running"
  /\ srv.proxyListening
  /\ conn[c].st = "free"
  /\ \A d \in Conns : d < c => conn[d].st = "accepted"
  /\ LET k == [FreeConn EXCEPT !.st = "accepted", !.clientIP = ip,
                               !.client = "open"]
         r == checkRateLimit(rateLimitMap, ip, now)
         h == [hist[c] EXCEPT !.acceptedAt = now]
     IN IF IpRejected(ip)
        THEN /\ Leaves(c, Out(destroyClient(k),
                              [h EXCEPT !.rejected = "IpDenied",
                                        !.nFailure = @ + 1],
                              recordFailure(stats)))
             /\ UNCHANGED rateLimitMap
        ELSE /\ rateLimitMap' = r.map
             /\ IF RateRejected(r)
                THEN Leaves(c, Out(destroyClient(k),
                                   [h EXCEPT !.ipChecked = TRUE,
                                             !.rejected = "RateLimited",
                                             !.nFailure = @ + 1],
                                   recordFailure(stats)))
                ELSE Leaves(c, Out([k EXCEPT !.prereadTimer = "armed",
                                             !.listeners = TRUE,
                                             !.onData = TRUE],
                                   [h EXCEPT !.ipChecked = TRUE,
                                             !.rateAdmitted = r.admitted,
                                             !.openedWindow =
                                                (r.map[ip].count = 1)],
                                   stats))
  /\ UNCHANGED <<srv, now, rules, nextSweep>>

\* The client socket emits 'data'.
ClientData(c, data) ==
  /\ proc = "running"
  /\ conn[c].client = "open"
  /\ hist[c].nChunks < MaxClientChunks
  /\ data \in (IF hist[c].received = <<>> THEN FirstChunks ELSE LaterChunks)
  /\ Leaves(c, clientData(conn[c], hist[c], stats, data))
  /\ UNCHANGED <<srv, now, rules, rateLimitMap, nextSweep>>

\* The prereadTimer fires.
PrereadTimeout(c) ==
  /\ proc = "running"
  /\ conn[c].prereadTimer = "armed"
  /\ Leaves(c, prereadExpired(conn[c], hist[c], stats))
  /\ UNCHANGED <<srv, now, rules, rateLimitMap, nextSweep>>

\* The client socket emits 'error' (the socket is destroyed by then).
ClientError(c) ==
  /\ proc = "running"
  /\ conn[c].client = "open"
  /\ conn[c].listeners
  /\ Leaves(c, Out(cleanup(destroyClient(conn[c])), hist[c], stats))
  /\ UNCHANGED <<srv, now, rules, rateLimitMap, nextSweep>>

\* The client socket emits 'end': the client has sent FIN.
ClientEnd(c) ==
  /\ proc = "running"
  /\ conn[c].client = "open"
  /\ conn[c].listeners
  /\ Leaves(c, Out(cleanup(conn[c]), hist[c], stats))
  /\ UNCHANGED <<srv, now, rules, rateLimitMap, nextSweep>>

\* The client socket emits 'timeout' (armed by secureConnect).
ClientTimeout(c) ==
  /\ proc = "running"
  /\ conn[c].client = "open"
  /\ conn[c].clientTimeout
  /\ Leaves(c, Out(cleanup(conn[c]), hist[c], stats))
  /\ UNCHANGED <<srv, now, rules, rateLimitMap, nextSweep>>

\* The client socket emits 'close' after it was destroyed.
ClientClose(c) ==
  /\ proc = "running"
  /\ conn[c].client = "destroyed"
  /\ conn[c].listeners
  /\ ~conn[c].clientCloseEmitted
  /\ Leaves(c, Out([cleanup(conn[c]) EXCEPT !.clientCloseEmitted = TRUE],
                   hist[c], stats))
  /\ UNCHANGED <<srv, now, rules, rateLimitMap, nextSweep>>

\* The upstream socket emits 'secureConnect'.
SecureConnect(c) ==
  /\ proc = "running"
  /\ conn[c].upstream = "connecting"
  /\ Leaves(c, secureConnect(conn[c], hist[c], stats))
  /\ UNCHANGED <<srv, now, rules, rateLimitMap, nextSweep>>

\* The upstream socket emits 'timeout': the dial deadline while connecting,
\* the idle deadline afterwards.
UpstreamTimeout(c) ==
  /\ proc = "running"
  /\ conn[c].upstream \in {"connecting", "connected"}
  /\ Leaves(c, upstreamFailure(conn[c], hist[c], stats))
  /\ UNCHANGED <<srv, now, rules, rateLimitMap, nextSweep>>

\* The upstream socket emits 'error' (the socket is destroyed by then).
UpstreamError(c) ==
  /\ proc = "running"
  /\ conn[c].upstream \in {"connecting", "connected"}
  /\ Leaves(c, upstreamFailure(destroyUpstream(conn[c]), hist[c], stats))
  /\ UNCHANGED <<srv, now, rules, rateLimitMap, nextSweep>>

\* The upstream socket emits 'end'.
UpstreamEnd(c) ==
  /\ proc = "running"
  /\ conn[c].upstream = "connected"
  /\ Leaves(c, Out(cleanup(conn[c]), hist[c], stats))
  /\ UNCHANGED <<srv, now, rules, rateLimitMap, nextSweep>>

\* The upstream socket emits 'close' after it was destroyed.
UpstreamClose(c) ==
  /\ proc = "running"
  /\ conn[c].upstream = "destroyed"
  /\ ~conn[c].upstreamCloseEmitted
  /\ Leaves(c, Out([cleanup(conn[c]) EXCEPT !.upstreamCloseEmitted = TRUE],
                   hist[c], stats))
  /\ UNCHANGED <<srv, now, rules, rateLimitMap, nextSweep>>

\* The upstream sends a chunk: upstreamSocket.pipe(clientSocket) copies it.
UpstreamData(c) ==
  /\ proc = "running"
  /\ conn[c].upstream = "connected"
  /\ hist[c].nUpstreamChunks < MaxUpstreamChunks
  /\ hist' = [hist EXCEPT ![c] =
                [@ EXCEPT !.nUpstreamChunks = @ + 1,
                          !.toClient =
                             IF conn[c].upstreamPiped /\ conn[c].client = "open"
                             THEN @ \o UpstreamAppData ELSE @]]
  /\ UNCHANGED <<proc, srv, now, rules, rateLimitMap, nextSweep, stats, conn>>

\* Time passes.
TimeSteps == {RateWindow, RateWindow + 1}
MaxNow == 60001

Tick(d) ==
  /\ proc = "running"
  /\ now + d <= MaxNow
  /\ now' = now + d
  /\ UNCHANGED <<proc, srv, rules, rateLimitMap, nextSweep, stats, conn, hist>>

\* The setInterval callback of the rate-limit table runs.
Sweep ==
  /\ proc = "running"
  /\ now >= nextSweep
  /\ rateLimitMap' = sweepRateLimitMap(rateLimitMap, now)
  /\ nextSweep' = now + SweepInterval
  /\ UNCHANGED <<proc, srv, now, rules, stats, conn, hist>>

Next ==
  \/ \E c \in Conns, ip \in PeerAddresses : HandleConnection(c, ip)
  \/ \E c \in Conns, data \in FirstChunks \cup LaterChunks : ClientData(c, data)
  \/ \E c \in Conns : PrereadTimeout(c)
  \/ \E c \in Conns : ClientError(c)
  \/ \E c \in Conns : ClientEnd(c)
  \/ \E c \in Conns : ClientTimeout(c)
  \/ \E c \in Conns : ClientClose(c)
  \/ \E c \in Conns : SecureConnect(c)
  \/ \E c \in Conns : UpstreamTimeout(c)
  \/ \E c \in Conns : UpstreamError(c)
  \/ \E c \in Conns : UpstreamEnd(c)
  \/ \E c \in Conns : UpstreamClose(c)
  \/ \E c \in Conns : UpstreamData(c)
  \/ \E d \in TimeSteps : Tick(d)
  \/ Sweep

Spec == Init /\ [][Next]_vars

(***************************************************************************)
(* Properties.                                                             *)
(***************************************************************************)

Accepted(c) == conn[c].st = "accepted"

\* Connection c is over: both sockets are destroyed, their 'close' events
\* have been handled and no timer of it is pending, so no handler of c runs
\* again.
Closed(c) ==
  /\ Accepted(c)
  /\ conn[c].client = "destroyed"
  /\ conn[c].listeners => conn[c].clientCloseEmitted
  /\ conn[c].upstream \in {"null", "destroyed"}
  /\ conn[c].upstream = "destroyed" => conn[c].upstreamCloseEmitted
  /\ conn[c].prereadTimer # "armed"

Outcomes(c) == hist[c].nSuccess + hist[c].nFailure

RECURSIVE SumOver(_, _)
SumOver(S, f) ==
  IF S = {} THEN 0
  ELSE LET x == CHOOSE y \in S : TRUE IN f[x] + SumOver(S \ {x}, f)

PolicyRejections == {"IpDenied", "RateLimited", "NoSni", "SniNotAllowed"}

\* The peers that the configured allow-list admits.
AllowedPeers ==
  {ip \in PeerAddresses : isAllowed(setAllowedIPs(allowedIPs), ip)}

\* C1: an upstream dial is initiated only for a connection whose source passed
\* isAllowed and checkRateLimit, whose ClientHello record was completely
\* buffered, whose SNI was parsed and is a key of the route table; a connection
\* rejected as IpDenied, RateLimited, NoSni or SniNotAllowed has no upstream
\* socket.
C1_DialOnlyAfterAdmission ==
  \A c \in Conns :
    /\ hist[c].nDial > 0 =>
         /\ conn[c].clientIP \in AllowedPeers
         /\ hist[c].ipChecked
         /\ hist[c].rateAdmitted
         /\ hist[c].helloComplete
         /\ hasEnoughDataForSNI(hist[c].received)
         /\ Truthy(conn[c].sniHostname)
         /\ conn[c].sniHostname.v \in DOMAIN UNIFI_DOMAINS
         /\ hist[c].dialedHost = UNIFI_DOMAINS[conn[c].sniHostname.v].host
    /\ conn[c].upstream # "null" => hist[c].nDial > 0
    /\ hist[c].rejected \in PolicyRejections =>
         conn[c].upstream = "null" /\ hist[c].nDial = 0

\* One connection is dialing its upstream while another was turned away.
C1_Witness ==
  \E c, d \in Conns :
    /\ hist[c].nDial = 1
    /\ conn[c].upstream = "connecting"
    /\ hist[d].rejected = "SniNotAllowed"
    /\ conn[d].upstream = "null"

\* C2: no byte is written to the upstream socket, and no upstream byte is
\* written to the client, before 'secureConnect' has been emitted.
C2_NoBytesBeforeSplice ==
  \A c \in Conns :
    (hist[c].toUpstream # <<>> \/ hist[c].toClient # <<>>) =>
      hist[c].handshakeDone /\ conn[c].isUpstreamConnected

\* Bytes have flowed both ways on a spliced connection.
C2_Witness ==
  \E c \in Conns :
    /\ hist[c].handshakeDone
    /\ hist[c].toUpstream # <<>>
    /\ hist[c].toClient # <<>>

\* C3: a connection causes at most one outcome increment (recordSuccess plus
\* recordFailure calls) over its lifetime.
C3_AtMostOneOutcome == \A c \in Conns : Outcomes(c) <= 1

\* C4: a connection that is over has caused at least one outcome increment.
C4_ClosedHasOutcome == \A c \in Conns : Closed(c) => Outcomes(c) >= 1

\* C5: active = total - successful - failed in every reachable state.
C5_ActiveIdentity ==
  stats.active = stats.total - stats.successful - stats.failed

\* C6: a connection that is over has lowered active exactly as often as it
\* raised it (once if admitted, never otherwise); active covers the admitted
\* connections that are still live and have no outcome yet; and active is 0
\* when no connection is live.
C6_ActiveBalanced ==
  /\ \A c \in Conns : Closed(c) => hist[c].nActiveDec = hist[c].nConnection
  /\ \A c \in Conns : hist[c].nActiveDec <= hist[c].nConnection
  /\ stats.active >=
       Cardinality({c \in Conns : /\ hist[c].nConnection = 1
                                  /\ Outcomes(c) = 0
                                  /\ ~Closed(c)})
  /\ (\A c \in Conns : ~Accepted(c) \/ Closed(c)) => stats.active = 0

\* C7: every increment of total is made for a connection whose source address
\* isAllowed accepts and which checkRateLimit admitted.
C7_TotalOnlyForAdmitted ==
  /\ stats.total = SumOver(Conns, [c \in Conns |-> hist[c].nConnection])
  /\ \A c \in Conns :
       hist[c].nConnection > 0 =>
         /\ conn[c].clientIP \in AllowedPeers
         /\ hist[c].ipChecked
         /\ hist[c].rateAdmitted

\* One connection has been counted in total, another was denied and is not.
C7_Witness ==
  \E c, d \in Conns :
    /\ hist[c].nConnection = 1
    /\ conn[c].upstream = "connecting"
    /\ hist[d].rejected = "IpDenied"
    /\ stats.total = 1

\* The connections of the source of c0 that checkRateLimit admitted within the
\* window that the check of c0 opened.
AdmittedInWindowOf(c0) ==
  {c \in Conns : /\ c >= c0
                 /\ Accepted(c)
                 /\ conn[c].clientIP = conn[c0].clientIP
                 /\ hist[c].rateAdmitted
                 /\ hist[c].acceptedAt <= hist[c0].acceptedAt + RateWindow}

C9_LookupExact ==
  \A c \in Conns :
    (hist[c].helloComplete /\ Truthy(conn[c].sniHostname)) =>
      /\ ~hist[c].lookup.isNull <=> conn[c].sniHostname.v \in ConfiguredHostnames
      /\ conn[c].sniHostname.v \notin ConfiguredHostnames =>
           /\ hist[c].rejected = "SniNotAllowed"
           /\ hist[c].nDial = 0
           /\ conn[c].client = "destroyed"

\* C10: once an admitted client's first byte is not 0x16, the connection has
\* been closed with a failure by the handler that read it.
C10_NotTlsClosedAtOnce ==
  \A c \in Conns :
    (hist[c].rateAdmitted /\ hist[c].received # <<>> /\ hist[c].received[1] # 22) =>
      conn[c].client = "destroyed" /\ hist[c].nFailure >= 1

(***************************************************************************)
(* The preread phase with a client that announces a large record.          *)
(***************************************************************************)

\* The cap on the preread buffer that the specification states: 16 KiB.
PrereadCap == 16 * 1024

\* The start of a TLS record that announces 65535 bytes, PrereadCap bytes
\* long, and one more byte of it.
LargeRecordHead == <<22, 3, 1, 255, 255>> \o Zeros(PrereadCap - 5)
LargeRecordMore == <<0>>

\* The client socket emits 'data' with a piece of the large record.
ClientDataLarge(c, data) ==
  /\ proc = "running"
  /\ conn[c].client = "open"
  /\ hist[c].nChunks < MaxClientChunks
  /\ data = (IF hist[c].received = <<>> THEN LargeRecordHead ELSE LargeRecordMore)
  /\ Leaves(c, clientData(conn[c], hist[c], stats, data))
  /\ UNCHANGED <<srv, now, rules, rateLimitMap, nextSweep>>

NextLarge ==
  \/ \E c \in Conns, ip \in PeerAddresses : HandleConnection(c, ip)
  \/ \E c \in Conns, data \in {LargeRecordHead, LargeRecordMore} :
       ClientDataLarge(c, data)
  \/ \E c \in Conns : PrereadTimeout(c)
  \/ \E c \in Conns : ClientError(c)
  \/ \E c \in Conns : ClientEnd(c)
  \/ \E c \in Conns : ClientClose(c)
  \/ \E d \in TimeSteps : Tick(d)
  \/ Sweep

SpecLarge == Init /\ [][NextLarge]_vars

\* C11: the preread buffer never holds more than 16 KiB, and a connection
\* whose record is still incomplete with 16 KiB buffered has been closed with
\* a failure.
C11_PrereadBufferCapped ==
  \A c \in Conns :
    ~conn[c].dataBuffer.isNull =>
      /\ Len(conn[c].dataBuffer.v) <= PrereadCap
      /\ (Len(conn[c].dataBuffer.v) >= PrereadCap
            /\ ~hasEnoughDataForSNI(conn[c].dataBuffer.v)) =>
           conn[c].client = "destroyed" /\ hist[c].nFailure >= 1

(***************************************************************************)
(* The preread deadline and the rejections.                                *)
(***************************************************************************)

\* The preread deadline of c expires in this step before a complete record
\* has been buffered.
PrereadExpiresIncomplete(c) ==
  /\ conn[c].prereadTimer = "armed"
  /\ conn'[c].prereadTimer = "fired"
  /\ ~hist[c].helloComplete

\* C12: when the preread deadline expires for an admitted client that has not
\* delivered a complete record, that step destroys the client socket and adds
\* one to failed, leaving total, successful and the domains map as they were;
\* the connection has exactly one failure, no recordConnection, no success and
\* no upstream socket, then and ever after.
C12_PrereadTimeoutFailsOnce ==
  /\ [][\A c \in Conns :
          PrereadExpiresIncomplete(c) =>
            /\ conn'[c].client = "destroyed"
            /\ stats'.failed = stats.failed + 1
            /\ stats'.total = stats.total
            /\ stats'.successful = stats.successful
            /\ stats'.domains = stats.domains]_vars
  /\ [](\A c \in Conns :
          (conn[c].prereadTimer = "fired" /\ ~hist[c].helloComplete) =>
            /\ hist[c].rateAdmitted
            /\ conn[c].client = "destroyed"
            /\ hist[c].rejected = "PrereadTimeout"
            /\ hist[c].nFailure = 1
            /\ hist[c].nConnection = 0
            /\ hist[c].nSuccess = 0
            /\ hist[c].nDial = 0
            /\ conn[c].upstream = "null")

\* A client sent part of a ClientHello, the deadline expired and the socket
\* has closed; failed is 1 and nothing else was counted.
C12_Witness ==
  \E c \in Conns :
    /\ conn[c].prereadTimer = "fired"
    /\ ~hist[c].helloComplete
    /\ hist[c].received = SubSeq(HelloOk, 1, SplitAt)
    /\ conn[c].clientCloseEmitted
    /\ stats.failed = 1
    /\ stats.total = 0
    /\ stats.domains = <<>>

\* C13: a connection turned away because its SNI is not in the route table
\* has no upstream socket, was counted once in total and once in failed, and
\* its SNI has an entry in the domains map.
C13_UnknownSniCounted ==
  \A c \in Conns :
    hist[c].rejected = "SniNotAllowed" =>
      /\ hist[c].nDial = 0
      /\ conn[c].upstream = "null"
      /\ conn[c].client = "destroyed"
      /\ hist[c].nFailure = 1
      /\ hist[c].nConnection = 1
      /\ stats.total >= 1
      /\ conn[c].sniHostname.v \in DOMAIN stats.domains

AdmissionRejections == {"IpDenied", "RateLimited"}

\* Connection c is accepted in this step and turned away by the allow-list or
\* by the rate limiter.
RejectedAtAccept(c) ==
  /\ conn[c].st = "free"
  /\ conn'[c].st = "accepted"
  /\ hist'[c].rejected \in AdmissionRejections

IsPrefix(a, b) == Len(a) <= Len(b) /\ SubSeq(b, 1, Len(a)) = a

\* C15: on a connection whose upstream handshake completed, what was written
\* to the upstream is a prefix of what was received from the client, and
\* while both sockets are open and piped it is all of it: no client byte,
\* whether it arrived before, during or after the dial, is missing.
C15_ClientBytesPreserved ==
  \A c \in Conns :
    hist[c].handshakeDone =>
      /\ IsPrefix(hist[c].toUpstream, hist[c].received)
      /\ (conn[c].client = "open" /\ conn[c].upstream = "connected"
            /\ conn[c].clientPiped) =>
           hist[c].toUpstream = hist[c].received

(***************************************************************************)
(* The allow-list under other values of ALLOWED_IPS and other peers.       *)
(***************************************************************************)

\* Values of ALLOWED_IPS.
\* "0.0.0.0/8"
List_0_8 == <<48, 46, 48, 46, 48, 46, 48, 47, 56>>
\* "10.0.0.1"
List_exact == <<49, 48, 46, 48, 46, 48, 46, 49>>
\* "203.0.113.77/24"
List_203_77_24 ==
  <<50, 48, 51, 46, 48, 46, 49, 49, 51, 46, 55, 55, 47, 50, 52>>
\* "203.0.113.0/24"
List_203_0_24 == <<50, 48, 51, 46, 48, 46, 49, 49, 51, 46, 48, 47, 50, 52>>
\* "128.0.0.0/1"
List_128_1 == <<49, 50, 56, 46, 48, 46, 48, 46, 48, 47, 49>>
\* "10.0.0.1/32, 203.0.113.5"
List_two ==
  <<49, 48, 46, 48, 46, 48, 46, 49, 47, 51, 50, 44, 32, 50, 48, 51, 46,
    48, 46, 49, 49, 51, 46, 53>>
\* "0.0.0.0/0"
List_all == <<48, 46, 48, 46, 48, 46, 48, 47, 48>>
\* "255.255.255.255/32"
List_255_32 ==
  <<50, 53, 53, 46, 50, 53, 53, 46, 50, 53, 53, 46, 50, 53, 53, 47, 51, 50>>
\* ","
List_comma == <<44>>
\* "10.0.0.256"
List_256 == <<49, 48, 46, 48, 46, 48, 46, 50, 53, 54>>
\* "10.0.0.1, 10.0.0.256"
List_exact_256 ==
  <<49, 48, 46, 48, 46, 48, 46, 49, 44, 32, 49, 48, 46, 48, 46, 48, 46, 50,
    53, 54>>

\* Peer addresses: dotted IPv4 addresses, and strings that are not.
\* "10.255.255.255"
Addr_10_255_255_255 ==
  <<49, 48, 46, 50, 53, 53, 46, 50, 53, 53, 46, 50, 53, 53>>
\* "203.0.114.5"
Addr_203_0_114_5 == <<50, 48, 51, 46, 48, 46, 49, 49, 52, 46, 53>>
\* "255.255.255.255"
Addr_255_255_255_255 ==
  <<50, 53, 53, 46, 50, 53, 53, 46, 50, 53, 53, 46, 50, 53, 53>>
\* "128.0.0.1"
Addr_128_0_0_1 == <<49, 50, 56, 46, 48, 46, 48, 46, 49>>
\* "0.0.0.1"
Addr_0_0_0_1 == <<48, 46, 48, 46, 48, 46, 49>>
\* "127.255.255.255"
Addr_127_255_255_255 ==
  <<49, 50, 55, 46, 50, 53, 53, 46, 50, 53, 53, 46, 50, 53, 53>>
\* "::ffff:10.0.0.1"
Addr_mapped ==
  <<58, 58, 102, 102, 102, 102, 58, 49, 48, 46, 48, 46, 48, 46, 49>>
\* "10..0.1"
Addr_empty_octet == <<49, 48, 46, 46, 48, 46, 49>>
\* "10.0.0.x"
Addr_letter_octet == <<49, 48, 46, 48, 46, 48, 46, 120>>
\* "::1"
Addr_v6_loopback == <<58, 58, 49>>
\* "256.0.0.1"
Addr_256 == <<50, 53, 54, 46, 48, 46, 48, 46, 49>>
\* "10.0.0"
Addr_three == <<49, 48, 46, 48, 46, 48>>

AllowLists ==
  {allowedIPs, List_0_8, List_exact, List_203_77_24, List_203_0_24,
   List_128_1, List_two, List_all, List_255_32, List_comma, List_256,
   List_exact_256}

DottedPeers ==
  {Addr_10_0_0_1, Addr_203_0_113_5, Addr_10_255_255_255, Addr_203_0_114_5,
   Addr_255_255_255_255, Addr_128_0_0_1, Addr_0_0_0_1, Addr_127_255_255_255}

OtherPeers ==
  {Addr_mapped, Addr_empty_octet, Addr_letter_octet, Addr_v6_loopback,
   Addr_256, Addr_three}

\* The proxy starts with one of the values of ALLOWED_IPS.
InitFilter ==
  /\ proc = "running"
  /\ srv = ServingSrv
  /\ now = 0
  /\ rules \in {setAllowedIPs(l) : l \in AllowLists}
  /\ rateLimitMap = <<>>
  /\ nextSweep = SweepInterval
  /\ stats = NewStats
  /\ conn = [c \in Conns |-> FreeConn]
  /\ hist = [c \in Conns |-> NoHist]

NextFilter ==
  \E c \in Conns, ip \in DottedPeers \cup OtherPeers : HandleConnection(c, ip)

SpecFilter == InitFilter /\ [][NextFilter]_vars

\* A dotted IPv4 address: four decimal octets, each in 0..255.
IsOctet(s) ==
  /\ s # <<>>
  /\ Len(s) <= 3
  /\ \A i \in 1..Len(s) : IsDigit(s[i])
  /\ DecimalValue(s) <= 255

WellFormedIPv4(ip) ==
  /\ Len(Split(ip, DOT)) = 4
  /\ \A i \in 1..4 : IsOctet(Split(ip, DOT)[i])

\* The rule set has a rule and none of its rules is universal.
Restrictive(rs) ==
  /\ Len(rs) > 0
  /\ \A i \in 1..Len(rs) :
       ~(rs[i].type = "cidr" /\ rs[i].network = Word(0) /\ rs[i].mask = Word(0))

\* C16: with a non-empty rule set that has no universal rule, a peer whose
\* address is not a dotted IPv4 address is turned away by the allow-list.
C16_MalformedPeerDenied ==
  \A c \in Conns :
    (Accepted(c) /\ Restrictive(rules) /\ ~WellFormedIPv4(conn[c].clientIP)) =>
      hist[c].rejected = "IpDenied"

\* The octets of a dotted IPv4 address and its bits, bit 1 the highest.
Octets(ip) == [i \in 1..4 |-> DecimalValue(Split(ip, DOT)[i])]
BitOf(ip, j) ==
  (Octets(ip)[((j - 1) \div 8) + 1] \div (2 ^ (7 - ((j - 1) % 8)))) % 2

\* What a valid entry of the list accepts: A.B.C.D/N the addresses whose top
\* N bits are those of A.B.C.D, and A.B.C.D that address.
RuleAccepts(entry, a) ==
  IF \E i \in 1..Len(entry) : entry[i] = SLASH
  THEN \A j \in 1..DecimalValue(Split(entry, SLASH)[2]) :
         BitOf(Split(entry, SLASH)[1], j) = BitOf(a, j)
  ELSE Octets(entry) = Octets(a)

\* The dotted addresses that isAllowed accepts under a value of ALLOWED_IPS.
PeersUnder_203_77_24 ==
  {a \in DottedPeers : isAllowed(setAllowedIPs(List_203_77_24), a)}
PeersUnder_203_0_24 ==
  {a \in DottedPeers : isAllowed(setAllowedIPs(List_203_0_24), a)}
PeersUnder_all == {a \in DottedPeers : isAllowed(setAllowedIPs(List_all), a)}
PeersUnder_255_32 ==
  {a \in DottedPeers : isAllowed(setAllowedIPs(List_255_32), a)}

\* C17: with a non-empty list of valid rules, a peer with a dotted IPv4 address
\* passes the allow-list iff some rule of the list accepts the address, for
\* addresses with the high bit set as well; 203.0.113.77/24 and 203.0.113.0/24
\* accept the same addresses, 0.0.0.0/0 accepts every address and
\* 255.255.255.255/32 accepts 255.255.255.255 only.
C17_AllowListMatchesRules ==
  /\ \A c \in Conns :
       (Accepted(c) /\ WellFormedIPv4(conn[c].clientIP)) =>
         /\ Len(rules) > 0 =>
              (hist[c].ipChecked <=>
                 \E i \in 1..Len(rules) :
                   RuleAccepts(rules[i].original, conn[c].clientIP))
         /\ (hist[c].ipChecked <=> hist[c].rejected # "IpDenied")
  /\ PeersUnder_203_77_24 = PeersUnder_203_0_24
  /\ PeersUnder_all = DottedPeers
  /\ PeersUnder_255_32 = {Addr_255_255_255_255}

\* Under 203.0.113.77/24 the peer 203.0.113.5 (high bit set) was let through
\* and the peer 203.0.114.5 was turned away.
C17_Witness ==
  /\ Len(rules) = 1
  /\ rules[1].original = List_203_77_24
  /\ \E c, d \in Conns :
       /\ conn[c].clientIP = Addr_203_0_113_5
       /\ hist[c].ipChecked
       /\ conn[d].clientIP = Addr_203_0_114_5
       /\ hist[d].rejected = "IpDenied"

(***************************************************************************)
(* server.js: main and setupGracefulShutdown; health-check.js:             *)
(* startHealthCheckServer.                                                 *)
(***************************************************************************)

\* The delay of the timer that shutdown arms, in ms.
GraceMs == 5000

\* The signals delivered and the 'error' events of the health check server
\* in one run.
MaxSignals == 2
MaxHealthErrors == 1

Signals == {"SIGTERM", "SIGINT"}

\* A variant of shutdown without the isShuttingDown test.
shutdown_unguarded(v, t) ==
  [v EXCEPT !.isShuttingDown = TRUE,
            !.proxyListening = FALSE,
            !.healthListening = FALSE,
            !.proxyCloses = @ + 1,
            !.graceTimers = @ + 1,
            !.graceDeadline = IF v.graceTimers = 0 THEN t + GraceMs ELSE @]

\* shutdown(signal) at time t.
shutdown(v, t) ==
  IF v.isShuttingDown THEN v
  ELSE [v EXCEPT !.isShuttingDown = TRUE,
                 !.proxyListening = FALSE,
                 !.healthListening = FALSE,
                 !.proxyCloses = @ + 1,
                 !.graceTimers = @ + 1,
                 !.graceDeadline = IF v.graceTimers = 0 THEN t + GraceMs ELSE @]

\* The health check server listens: the promise resolves and main goes on to
\* create the proxy server, to listen and to set the signal handlers.
HealthListening ==
  /\ proc = "running"
  /\ srv.phase = "starting"
  /\ srv' = [srv EXCEPT !.phase = "serving", !.healthListening = TRUE,
                        !.proxyListening = TRUE]
  /\ UNCHANGED <<proc, now, rules, rateLimitMap, nextSweep, stats, conn, hist>>

\* The health check server emits 'error'.  Its two listeners are the logging
\* one of createHealthCheckServer and the reject of startHealthCheckServer:
\* while main awaits the promise the rejection reaches the catch of main,
\* which calls process.exit(1); once the promise is resolved reject does
\* nothing.
HealthError ==
  /\ proc = "running"
  /\ srv.nHealthErrors < MaxHealthErrors
  /\ srv' = [srv EXCEPT !.nHealthErrors = @ + 1]
  /\ proc' = IF srv.phase = "starting" THEN "failed" ELSE proc
  /\ UNCHANGED <<now, rules, rateLimitMap, nextSweep, stats, conn, hist>>

\* SIGTERM or SIGINT is delivered.  Before setupGracefulShutdown has run no
\* handler is set and the signal ends the process.
Signal(sig) ==
  /\ proc = "running"
  /\ srv.nSignals < MaxSignals
  /\ IF srv.phase = "starting"
     THEN /\ proc' = "killed"
          /\ srv' = [srv EXCEPT !.nSignals = @ + 1]
     ELSE /\ proc' = proc
          /\ srv' = [shutdown(srv, now) EXCEPT !.nSignals = @ + 1]
  /\ UNCHANGED <<now, rules, rateLimitMap, nextSweep, stats, conn, hist>>

\* The callback of the timer armed by shutdown: process.exit(0).
GraceTimeout ==
  /\ proc = "running"
  /\ srv.graceTimers > 0
  /\ proc' = "exited"
  /\ srv' = [srv EXCEPT !.graceTimers = @ - 1]
  /\ now' = Max(now, srv.graceDeadline)
  /\ UNCHANGED <<rules, rateLimitMap, nextSweep, stats, conn, hist>>

\* The start of the process.  The clients of this specification send a whole
\* ClientHello for fw-update.ui.com and nothing else.
InitLifecycle ==
  /\ proc = "running"
  /\ srv = StartingSrv
  /\ now = 0
  /\ rules = setAllowedIPs(allowedIPs)
  /\ rateLimitMap = <<>>
  /\ nextSweep = SweepInterval
  /\ stats = NewStats
  /\ conn = [c \in Conns |-> FreeConn]
  /\ hist = [c \in Conns |-> NoHist]

NextLifecycle ==
  \/ HealthListening
  \/ HealthError
  \/ \E sig \in Signals : Signal(sig)
  \/ GraceTimeout
  \/ \E c \in Conns, ip \in PeerAddresses : HandleConnection(c, ip)
  \/ \E c \in Conns : ClientData(c, HelloOk)
  \/ \E c \in Conns : SecureConnect(c)
  \/ \E c \in Conns : ClientEnd(c)
  \/ \E c \in Conns : ClientClose(c)
  \/ \E d \in TimeSteps : Tick(d)

\* A timer that is armed fires.
SpecLifecycle ==
  InitLifecycle /\ [][NextLifecycle]_vars /\ WF_vars(GraceTimeout)

\* A signal is delivered in this step.
SignalStep == srv'.nSignals = srv.nSignals + 1

\* C18: the first signal that reaches the handlers closes the proxy server and
\* arms one timer due after 5 s; a signal during the drain changes nothing;
\* no connection is accepted during the drain; there is never a second timer
\* or a second close; and once shutdown has begun the process ends, at or
\* after the deadline when it is the timer that ends it, whatever the state
\* of the connections.
C18_ShutdownOnceThenExit ==
  /\ [][(SignalStep /\ srv.phase = "serving" /\ ~srv.isShuttingDown) =>
          /\ srv'.isShuttingDown
          /\ ~srv'.proxyListening
          /\ srv'.proxyCloses = 1
          /\ srv'.graceTimers = 1
          /\ srv'.graceDeadline = now + GraceMs]_vars
  /\ [][(SignalStep /\ srv.isShuttingDown) =>
          /\ srv' = [srv EXCEPT !.nSignals = @ + 1]
          /\ UNCHANGED <<proc, now, rules, rateLimitMap, nextSweep, stats,
                         conn, hist>>]_vars
  /\ [][srv.isShuttingDown =>
          \A c \in Conns : conn[c].st = "free" => conn'[c].st = "free"]_vars
  /\ [](srv.isShuttingDown =>
          /\ srv.proxyCloses = 1
          /\ srv.graceTimers = (IF proc = "exited" THEN 0 ELSE 1))
  /\ [](proc = "exited" => srv.isShuttingDown /\ now >= srv.graceDeadline)
  /\ (srv.isShuttingDown ~> proc # "running")

\* The process has exited after two signals while a spliced connection was
\* still open.
C18_Witness ==
  /\ proc = "exited"
  /\ srv.nSignals = 2
  /\ \E c \in Conns :
       /\ conn[c].client = "open"
       /\ conn[c].upstream = "connected"
       /\ hist[c].toUpstream # <<>>

\* C19: an 'error' event of the health check server is only logged: the step
\* leaves the process running and changes nothing of the servers or of the
\* connections, so that main still goes on to start the proxy server.
C19_HealthErrorOnlyLogged ==
  [][srv'.nHealthErrors = srv.nHealthErrors + 1 =>
       /\ proc' = "running"
       /\ srv' = [srv EXCEPT !.nHealthErrors = @ + 1]
       /\ UNCHANGED <<now, rules, rateLimitMap, nextSweep, stats, conn, hist>>]_vars

(***************************************************************************)
(* The parser on ClientHellos whose length fields disagree with the bytes  *)
(* that carry them.                                                        *)
(***************************************************************************)

\* A server_name extension that announces 8 bytes, "fw-" among them, while
\* its host_name length says 16; "update.ui.com" follows the extension inside
\* the extensions block.
HelloNameOverrunsExtension ==
  ClientHelloWith(U16(0) \o U16(8) \o U16(6) \o <<0>> \o U16(16)
                  \o SubSeq(fw_update_ui_com, 1, 3)
                  \o SubSeq(fw_update_ui_com, 4, 16))

\* A record that ends after "fw-" with the host_name length saying 16,
\* followed in the same segment by "update.ui.com".
HelloNameOverrunsRecord ==
  ClientHelloWith(U16(0) \o U16(8) \o U16(6) \o <<0>> \o U16(16)
                  \o SubSeq(fw_update_ui_com, 1, 3))
  \o SubSeq(fw_update_ui_com, 4, 16)

\* The same record with nothing after it.
HelloNameTruncated ==
  ClientHelloWith(U16(0) \o U16(8) \o U16(6) \o <<0>> \o U16(16)
                  \o SubSeq(fw_update_ui_com, 1, 3))

\* An extensions block that announces more bytes than the record holds.
HelloExtensionsOverrunRecord ==
  LET h == ClientHello(example_com)
  IN [h EXCEPT ![Len(h) - Len(SniExtension(example_com))] = 255]

CraftedHellos ==
  {HelloOk, ClientHello(example_com), HelloNameOverrunsExtension,
   HelloNameOverrunsRecord, HelloNameTruncated, HelloExtensionsOverrunRecord}

\* The client socket emits 'data' with one of these as its first segment.
ClientDataCrafted(c, data) ==
  /\ proc = "running"
  /\ conn[c].client = "open"
  /\ hist[c].received = <<>>
  /\ data \in CraftedHellos
  /\ Leaves(c, clientData(conn[c], hist[c], stats, data))
  /\ UNCHANGED <<srv, now, rules, rateLimitMap, nextSweep>>

NextCrafted ==
  \/ \E c \in Conns, ip \in PeerAddresses : HandleConnection(c, ip)
  \/ \E c \in Conns, data \in CraftedHellos : ClientDataCrafted(c, data)
  \/ \E c \in Conns : PrereadTimeout(c)
  \/ \E c \in Conns : ClientEnd(c)
  \/ \E c \in Conns : ClientClose(c)
  \/ \E d \in TimeSteps : Tick(d)

SpecCrafted == Init /\ [][NextCrafted]_vars

\* The offset of the length field of the extensions block, for a buffer in
\* which parseSNI reaches it.
ExtensionsLengthOffset(buffer) ==
  LET o1 == 43 + 1 + At(buffer, 43)
      o2 == o1 + 2 + readUInt16BE(buffer, o1)
  IN o2 + 1 + At(buffer, o2)

\* The offset of the first extension of type 0 from offset on, for a buffer
\* in which parseSNI finds one.
RECURSIVE SniExtensionOffset(_, _)
SniExtensionOffset(buffer, offset) ==
  IF readUInt16BE(buffer, offset) = 0 THEN offset
  ELSE SniExtensionOffset(buffer, offset + 4 + readUInt16BE(buffer, offset + 2))

\* The host_name lies inside the server_name extension, the extension inside
\* the extensions block and the block inside the TLS record.
NameInsideRegions(buffer) ==
  LET el == ExtensionsLengthOffset(buffer)
      extensionsEnd == el + 2 + readUInt16BE(buffer, el)
      recordEnd == 5 + readUInt16BE(buffer, 3)
      sni == SniExtensionOffset(buffer, el + 2)
      sniEnd == sni + 4 + readUInt16BE(buffer, sni + 2)
      nameEnd == sni + 9 + readUInt16BE(buffer, sni + 7)
  IN nameEnd <= sniEnd /\ sniEnd <= extensionsEnd /\ extensionsEnd <= recordEnd

\* C20: a name that parseSNI returns lies inside the server_name extension,
\* which lies inside the extensions block, which lies inside the TLS record.
C20_NameInsideRegions ==
  \A c \in Conns :
    (hist[c].helloComplete /\ ~conn[c].sniHostname.isNull) =>
      NameInsideRegions(hist[c].received)

(***************************************************************************)
(* Dialing, splicing and closing.                                          *)
(***************************************************************************)

\* C21: for a connection that has issued tls.connect the preread timer does
\* not expire any more: its callback never runs, so it neither destroys the
\* client socket nor records a failure for that connection.
C21_PrereadCancelledAtDial ==
  \A c \in Conns :
    hist[c].nDial > 0 =>
      /\ conn[c].prereadTimer # "fired"
      /\ hist[c].rejected # "PrereadTimeout"

\* Connection c is copying bytes: the upstream handshake is done and both
\* sockets are open.
Splicing(c) ==
  /\ hist[c].handshakeDone
  /\ conn[c].client = "open"
  /\ conn[c].upstream = "connected"

\* C22: a connection that is copying bytes has no outcome yet and is counted
\* in active; recordSuccess is called for it only once it has closed.
C22_OutcomeAtCloseOnly ==
  \A c \in Conns :
    /\ Splicing(c) =>
         /\ hist[c].nSuccess = 0
         /\ hist[c].nActiveDec = 0
         /\ stats.active >= 1
    /\ hist[c].nSuccess > 0 => conn[c].client = "destroyed"

\* C23: when one side of a connection that is copying bytes reports EOF, the
\* other direction is left in place: after the client's 'end' the upstream
\* socket is still connected and piped to the client, and after the upstream's
\* 'end' the client socket is still open and piped to the upstream.
C23_HalfCloseOnEof ==
  [][\A c \in Conns :
       /\ (Splicing(c) /\ ClientEnd(c)) =>
            conn'[c].upstream = "connected" /\ conn'[c].upstreamPiped
       /\ (Splicing(c) /\ UpstreamEnd(c)) =>
            conn'[c].client = "open" /\ conn'[c].clientPiped]_vars

\* Nothing of connection c is left open or pending.
CleanedUp(c) ==
  /\ conn[c].client = "destroyed"
  /\ conn[c].upstream \in {"null", "destroyed"}
  /\ conn[c].prereadTimer # "armed"

\* A handler of c that calls cleanup runs in this step.
CleanupStep(c) ==
  \/ ClientError(c) \/ ClientEnd(c) \/ ClientTimeout(c) \/ ClientClose(c)
  \/ UpstreamTimeout(c) \/ UpstreamError(c) \/ UpstreamEnd(c)
  \/ UpstreamClose(c)

SocketsAndTimer(k) ==
  <<k.client, k.upstream, k.prereadTimer, k.clientPiped, k.upstreamPiped>>

StatsCalls(h) == <<h.nConnection, h.nSuccess, h.nFailure, h.nActiveDec>>

\* C24: a handler that calls cleanup leaves the client socket destroyed, the
\* upstream socket destroyed if there is one and the preread timer not
\* pending; after the expiry of the preread timer the client socket is
\* destroyed and its 'close' handler brings the connection to that state;
\* from that state on no step of the connection changes a socket, a pipe or
\* the timer or makes a stats call, a further call of cleanup changes
\* nothing at all, and cleanup applied twice is cleanup applied once.
C24_CleanupIdempotent ==
  /\ [][\A c \in Conns : CleanupStep(c) => CleanedUp(c)']_vars
  /\ [][\A c \in Conns :
          CleanedUp(c) =>
            /\ SocketsAndTimer(conn'[c]) = SocketsAndTimer(conn[c])
            /\ StatsCalls(hist'[c]) = StatsCalls(hist[c])
            /\ CleanupStep(c) => stats' = stats]_vars
  /\ [](\A c \in Conns :
          /\ conn[c].prereadTimer = "fired" => conn[c].client = "destroyed"
          /\ conn[c].clientCloseEmitted => CleanedUp(c)
          /\ conn[c].upstreamCloseEmitted => CleanedUp(c)
          /\ cleanup(cleanup(conn[c])) = cleanup(conn[c]))

\* The first event of a connection was the upstream's 'end' while bytes were
\* being copied; the 'close' handlers of both sockets have called cleanup
\* again since.
C24_Witness ==
  \E c \in Conns :
    /\ hist[c].handshakeDone
    /\ hist[c].toClient # <<>>
    /\ hist[c].nFailure = 0
    /\ CleanedUp(c)
    /\ conn[c].clientCloseEmitted
    /\ conn[c].upstreamCloseEmitted
    /\ conn[c].prereadTimer = "cleared"

(* The sweep of the rate-limit table. *)

\* The times of the checks that follow a sweep at time t.
LaterTimes(t) == {t, t + 1, t + RateWindow, t + RateWindow + 1}

\* Sequences of at most two checks <<ip, time>> from time t on, in the order
\* of their times.
LaterChecks(t) ==
  LET One == PeerAddresses \X LaterTimes(t)
  IN {<<a>> : a \in One}
       \cup {<<p[1], p[2]>> : p \in {q \in One \X One : q[2][2] >= q[1][2]}}

\* The answers of checkRateLimit to the checks cs made in turn on table m.
RECURSIVE Answers(_, _)
Answers(m, cs) ==
  IF cs = <<>> THEN <<>>
  ELSE LET r == checkRateLimit(m, cs[1][1], cs[1][2])
       IN <<r.admitted>> \o Answers(r.map, Tail(cs))

\* C25: a run of the sweep deletes exactly the entries whose window ended
\* before now (resetTime < now) and leaves the others as they were, and every
\* sequence of later rate-limit checks gets the same answers on the swept
\* table as on the table the sweep found.
C25_SweepTransparent ==
  [][Sweep =>
       /\ DOMAIN rateLimitMap' =
            {ip \in DOMAIN rateLimitMap : ~(rateLimitMap[ip].resetTime < now)}
       /\ \A ip \in DOMAIN rateLimitMap' :
            rateLimitMap'[ip] = rateLimitMap[ip]
       /\ \A cs \in LaterChecks(now) :
            Answers(rateLimitMap', cs) = Answers(rateLimitMap, cs)]_vars

\* The sweep has deleted the entry of a window that had ended, and a later
\* connection of that source was admitted and opened a new window.
C25_Witness ==
  /\ nextSweep = MaxNow + SweepInterval
  /\ \E c0, c \in Conns :
       /\ hist[c0].openedWindow
       /\ hist[c0].acceptedAt = 0
       /\ conn[c].clientIP = conn[c0].clientIP
       /\ hist[c].openedWindow
       /\ hist[c].acceptedAt = MaxNow
       /\ rateLimitMap[conn[c].clientIP].resetTime = MaxNow + RateWindow

\* C26: a connection dials at most once and its 'secureConnect' handler
\* sets up the pipes at most once, whatever chunks the client sends; a dial
\* is started only by a connection that has recorded no failure and no
\* rejection, and only by a chunk of the client.
C26_SingleDial ==
  /\ [](\A c \in Conns :
          /\ hist[c].nDial <= 1
          /\ hist[c].nSuccess <= 1
          /\ hist[c].handshakeDone => hist[c].nDial = 1)
  /\ [][\A c \in Conns :
          /\ hist'[c].nDial # hist[c].nDial =>
               /\ hist[c].nFailure = 0
               /\ hist[c].rejected = "none"
               /\ \E data \in FirstChunks \cup LaterChunks : ClientData(c, data)
          /\ hist'[c].nSuccess # hist[c].nSuccess => ~hist[c].handshakeDone]_vars

\* A connection has dialed, copied bytes of a later chunk to the upstream and
\* then failed; it has received as many chunks as the client may send.
C26_Witness ==
  \E c \in Conns :
    /\ hist[c].nDial = 1
    /\ hist[c].handshakeDone
    /\ hist[c].nChunks = MaxClientChunks
    /\ hist[c].nFailure > 0
    /\ Closed(c)

(* Invalid entries of the allow-list. *)

\* The non-empty entries of a value of ALLOWED_IPS.
Entries(l) ==
  FilterNonEmpty([i \in 1..Len(Split(l, COMMA)) |-> Trim(Split(l, COMMA)[i])])

\* A prefix length: a decimal number in 0..32.
IsPrefixLength(s) ==
  /\ s # <<>>
  /\ Len(s) <= 2
  /\ \A i \in 1..Len(s) : IsDigit(s[i])
  /\ DecimalValue(s) <= 32

\* A valid entry: A.B.C.D or A.B.C.D/N.
ValidEntry(e) ==
  IF \E i \in 1..Len(e) : e[i] = SLASH
  THEN /\ Len(Split(e, SLASH)) = 2
       /\ WellFormedIPv4(Split(e, SLASH)[1])
       /\ IsPrefixLength(Split(e, SLASH)[2])
  ELSE WellFormedIPv4(e)

\* For each value of ALLOWED_IPS with an entry: the rules the filter holds
\* and the valid entries of the value.
ListsWithEntries ==
  {<<setAllowedIPs(l),
     {Entries(l)[i] : i \in {j \in 1..Len(Entries(l)) : ValidEntry(Entries(l)[j])}}>> :
     l \in {x \in AllowLists : Entries(x) # <<>>}}

\* C27: when the configured list has an entry, a peer with a dotted IPv4
\* address that passes the allow-list is accepted by a valid entry of the
\* list; a list of invalid entries only lets no peer pass.
C27_InvalidEntriesAdmitNothing ==
  \A p \in ListsWithEntries :
    rules = p[1] =>
      \A c \in Conns :
        (Accepted(c) /\ WellFormedIPv4(conn[c].clientIP) /\ hist[c].ipChecked) =>
          \E e \in p[2] : RuleAccepts(e, conn[c].clientIP)

(* Rejections and the rate-limit table. *)

\* Connection c is accepted in this step and turned away for the reason why.
TurnedAway(c, why) ==
  /\ conn[c].st = "free"
  /\ conn'[c].st = "accepted"
  /\ hist'[c].rejected = why

\* C28: a step that turns a connection away leaves the rate-limit table as
\* it was; a peer denied by the allow-list gets no entry in the table; a
\* check that returns false leaves the count and the end of the window of the
\* source, so that the source is turned away up to the end of that window and
\* admitted by the first check after it.
C28_RejectionKeepsTable ==
  /\ [][\A c \in Conns :
          /\ TurnedAway(c, "IpDenied") =>
               /\ rateLimitMap' = rateLimitMap
               /\ conn'[c].clientIP \notin DOMAIN rateLimitMap'
          /\ TurnedAway(c, "RateLimited") =>
               LET ip == conn'[c].clientIP
                   end == rateLimitMap[ip].resetTime
               IN /\ rateLimitMap' = rateLimitMap
                  /\ now <= end
                  /\ ~checkRateLimit(rateLimitMap', ip, end).admitted
                  /\ checkRateLimit(rateLimitMap', ip, end + 1).admitted]_vars
  /\ [](\A ip \in PeerAddresses, t \in {now, now + 1, now + RateWindow} :
          ~checkRateLimit(rateLimitMap, ip, t).admitted =>
            checkRateLimit(rateLimitMap, ip, t).map = rateLimitMap)

\* A source opened a window at time 0 and was turned away at the last moment
\* of that window; the entry of the source is as the first connection left
\* it.
C28_Witness ==
  /\ now = RateWindow
  /\ \E c0, c \in Conns :
       /\ hist[c0].openedWindow
       /\ hist[c0].acceptedAt = 0
       /\ conn[c].clientIP = conn[c0].clientIP
       /\ hist[c].rejected = "RateLimited"
       /\ hist[c].acceptedAt = RateWindow
       /\ conn[c].clientIP \in DOMAIN rateLimitMap
       /\ rateLimitMap[conn[c].clientIP] =
            [count |-> rateLimitPerIP, resetTime |-> RateWindow]

====
